---- MODULE Spec2Model ----
(***************************************************************************)
(* Payment-code generator (src/_OLD/generator.py).                         *)
(*                                                                         *)
(* A Python str is modelled as a sequence of characters, each character a  *)
(* one-element token ("A", "-", "\n"; a non-ASCII letter is the token of    *)
(* its code point, "U+010D" for c-caron, "U+017E" for z-caron).  A bytes    *)
(* object is a sequence of integers 0..255.                                *)
(***************************************************************************)
EXTENDS Integers, Sequences, FiniteSets, TLC

VARIABLES op, arg, ret, lines, buf, fs, heap, proc

vars == <<op, arg, ret, lines, buf, fs, heap, proc>>

(***************************************************************************)
(* Bounds of the model                                                     *)
(***************************************************************************)
MaxNameLen == 11

MaxIntDigits == 14

MaxBufLen == 4

(***************************************************************************)
(* String literals of the source                                           *)
(***************************************************************************)
NL == "\n"

HRVHUB30_ID == <<"H", "R", "V", "H", "U", "B", "3", "0">>

EUR == <<"E", "U", "R">>

HR00 == <<"H", "R", "0", "0">>

company_street == <<"R", "a", "c", "k", "a", " ", "1", "C">>

company_postal_code_and_city == <<"1", "0", "2", "5", "0", " ", "J", "e", "U+017E", "d", "o", "v", "e", "c">>

FIXED_IBAN == <<"H", "R", "9", "1", "2", "3", "6", "0", "0", "0", "0", "1", "5", "0", "3", "4", "1", "7", "2", "5", "2">>

RACUN_BR == <<"R", "a", "c", "u", "n", " ", "b", "r", ".", " ">>

BCD_TAG == <<"B", "C", "D">>

BCD_VERSION == <<"0", "0", "2">>

BCD_CHARSET == <<"1">>

BCD_SCT == <<"S", "C", "T">>

DEFAULT_BIC == <<"Z", "A", "B", "A", "H", "R", "2", "X", "X", "X", "X">>

LABEL_SALES_INVOICE == <<"R", "a", "U+010D", "u", "n", " ", "b", "r", ".">>

LABEL_QUOTATION == <<"P", "o", "n", "u", "d", "a", " ", "b", "r", ".">>

LABEL_PURCHASE_ORDER == <<"N", "a", "r", "u", "d", "U+017E", "b", "a", " ", "b", "r", ".">>

LABEL_DELIVERY_NOTE == <<"O", "t", "p", "r", "e", "m", "n", "i", "c", "a", " ", "b", "r", ".">>

LABEL_DEFAULT == <<"D", "o", "k", "u", "m", "e", "n", "t", " ", "b", "r", ".">>

DATA_URI_PREFIX == <<"d", "a", "t", "a", ":", "i", "m", "a", "g", "e", "/", "p", "n", "g", ";", "b", "a", "s", "e", "6", "4", ",">>

(***************************************************************************)
(* Python str operations                                                   *)
(***************************************************************************)
Min(a, b) == IF a <= b THEN a ELSE b

\* s[:n]
Prefix(s, n) == SubSeq(s, 1, Min(n, Len(s)))

\* s[n:]
Suffix(s, n) == SubSeq(s, Min(n, Len(s)) + 1, Len(s))

\* s.startswith(p)
StartsWith(s, p) == Len(s) >= Len(p) /\ SubSeq(s, 1, Len(p)) = p

\* s.split(sep) for a one-character separator: always at least one segment
RECURSIVE Split(_, _)
Split(s, sep) ==
    IF \A i \in 1..Len(s) : s[i] # sep
    THEN <<s>>
    ELSE LET k == CHOOSE i \in 1..Len(s) :
                     s[i] = sep /\ \A j \in 1..(i - 1) : s[j] # sep
         IN  <<SubSeq(s, 1, k - 1)>> \o Split(SubSeq(s, k + 1, Len(s)), sep)

\* sep.join(parts)
RECURSIVE Join(_, _)
Join(parts, sep) ==
    IF Len(parts) = 0 THEN <<>>
    ELSE IF Len(parts) = 1 THEN parts[1]
    ELSE parts[1] \o <<sep>> \o Join(Tail(parts), sep)

\* s.replace(a, b) for one-character a and b
Replace(s, a, b) == [i \in 1..Len(s) |-> IF s[i] = a THEN b ELSE s[i]]

(***************************************************************************)
(* Reference number                                                        *)
(***************************************************************************)
extract_reference_number_first3(doc_name) ==
    LET parts == Split(doc_name, "-")
    IN  IF Len(parts) >= 4
        THEN Join(<<parts[1], parts[2], parts[3]>>, "-")
        ELSE IF Len(parts) >= 3
        THEN Join(SubSeq(parts, Len(parts) - 2, Len(parts)), "-")
        ELSE Prefix(doc_name, 10)

extract_reference_number(doc_name) ==
    LET parts == Split(doc_name, "-")
    IN  IF Len(parts) >= 4
        THEN Join(<<parts[2], parts[3], parts[4]>>, "-")
        ELSE IF Len(parts) >= 3
        THEN Join(SubSeq(parts, Len(parts) - 2, Len(parts)), "-")
        ELSE Prefix(doc_name, 10)

(***************************************************************************)
(* Amounts.  doc.grand_total is an exact decimal with three fractional     *)
(* digits: a sign, the digits of the integer part (no leading zero except  *)
(* for "0" itself) and the three fractional digits.  Digit sequences stand *)
(* for integers wider than the machine integers of the checker.            *)
(***************************************************************************)
Digits == 0..9

DigitChar == <<"0", "1", "2", "3", "4", "5", "6", "7", "8", "9">>

IsDigitChar(c) == \E d \in Digits : DigitChar[d + 1] = c

\* the decimal digits as characters
DigitStr(ds) == [i \in 1..Len(ds) |-> DigitChar[ds[i] + 1]]

Repeat(x, n) == [i \in 1..n |-> x]

IsZero(ds) == \A i \in 1..Len(ds) : ds[i] = 0

\* canonical form of a natural number: no leading zeros, at least one digit
RECURSIVE StripZeros(_)
StripZeros(ds) ==
    IF Len(ds) <= 1 THEN (IF Len(ds) = 0 THEN <<0>> ELSE ds)
    ELSE IF ds[1] = 0 THEN StripZeros(Tail(ds)) ELSE ds

\* ds + 1
RECURSIVE Inc(_)
Inc(ds) ==
    IF Len(ds) = 0 THEN <<1>>
    ELSE IF ds[Len(ds)] < 9
    THEN SubSeq(ds, 1, Len(ds) - 1) \o <<ds[Len(ds)] + 1>>
    ELSE Inc(SubSeq(ds, 1, Len(ds) - 1)) \o <<0>>

\* int(x * 100): the product truncated toward zero, as sign and magnitude
IntTimes100(x) ==
    LET mag == StripZeros(x.int \o <<x.frac[1], x.frac[2]>>)
    IN  [neg |-> x.neg /\ ~IsZero(mag), mag |-> mag]

\* "{:015d}".format(n): sign first, then zeros up to a total width of 15;
\* a number wider than the field is written in full
Format015d(n) ==
    LET sign == IF n.neg THEN <<"-">> ELSE <<>>
        w    == 15 - Len(sign)
        pad  == IF Len(n.mag) < w THEN w - Len(n.mag) ELSE 0
    IN  sign \o Repeat("0", pad) \o DigitStr(n.mag)

\* f"{x:.2f}": x rounded to two fractional digits.  The third digit decides;
\* on a third digit of 5 the binary value of the float lies just below or
\* just above the tie (or on it), so either neighbour can be printed: up
\* is that outcome.
Format2f_1f(x, up) ==
    LET c0    == x.int \o <<x.frac[1], x.frac[2]>>
        roundup == x.frac[3] > 5 \/ (x.frac[3] = 5 /\ up)
        c     == StripZeros(IF roundup THEN Inc(c0) ELSE c0)
        cc    == IF Len(c) < 3 THEN Repeat(0, 3 - Len(c)) \o c ELSE c
        sign  == IF x.neg THEN <<"-">> ELSE <<>>
    IN  sign \o DigitStr(SubSeq(cc, 1, Len(cc) - 2)) \o <<".">>
             \o DigitStr(SubSeq(cc, Len(cc) - 1, Len(cc) - 1))

Format2f(x, up) ==
    LET c0    == x.int \o <<x.frac[1], x.frac[2]>>
        roundup == x.frac[3] > 5 \/ (x.frac[3] = 5 /\ up)
        c     == StripZeros(IF roundup THEN Inc(c0) ELSE c0)
        cc    == IF Len(c) < 3 THEN Repeat(0, 3 - Len(c)) \o c ELSE c
        sign  == IF x.neg THEN <<"-">> ELSE <<>>
    IN  sign \o DigitStr(SubSeq(cc, 1, Len(cc) - 2)) \o <<".">>
             \o DigitStr(SubSeq(cc, Len(cc) - 1, Len(cc)))

(***************************************************************************)
(* Document view                                                           *)
(***************************************************************************)
\* MockDocument.__init__: every attribute is taken from data, or its default
MockDocument(data) ==
    [doctype      |-> data.doctype,
     name         |-> data.name,
     company      |-> data.company,
     grand_total  |-> data.grand_total,
     custom_odjel |-> data.custom_odjel,
     iban         |-> data.iban,
     bic          |-> data.bic]

get_document_type_label(doc) ==
    IF "doctype" \in DOMAIN doc
    THEN CASE doc.doctype = "Sales Invoice"  -> LABEL_SALES_INVOICE
           [] doc.doctype = "Quotation"      -> LABEL_QUOTATION
           [] doc.doctype = "Purchase Order" -> LABEL_PURCHASE_ORDER
           [] doc.doctype = "Delivery Note"  -> LABEL_DELIVERY_NOTE
           [] OTHER                          -> LABEL_DEFAULT
    ELSE LABEL_DEFAULT

\* the department logic is commented out in the source: one IBAN for all
get_iban_by_department(doc) == FIXED_IBAN

(***************************************************************************)
(* Payload encoders                                                        *)
(***************************************************************************)
\* the local list "lines" of generate_hub30_payload
hub30_lines_swapped(doc) ==
    LET iban          == get_iban_by_department(doc)
        poziv_na_broj == extract_reference_number(doc.name)
        doc_label     == get_document_type_label(doc)
        company       == doc.company
        description   == RACUN_BR \o poziv_na_broj
    IN  << HRVHUB30_ID,
           EUR,
           Format015d(IntTimes100(doc.grand_total)),
           <<>>,
           <<>>,
           <<>>,
           company,
           company_street,
           company_postal_code_and_city,
           HR00,
           iban,
           poziv_na_broj,
           <<>>,
           description,
           <<>> >>

hub30_lines(doc) ==
    LET iban          == get_iban_by_department(doc)
        poziv_na_broj == extract_reference_number(doc.name)
        doc_label     == get_document_type_label(doc)
        company       == doc.company
        description   == RACUN_BR \o poziv_na_broj
    IN  << HRVHUB30_ID,
           EUR,
           Format015d(IntTimes100(doc.grand_total)),
           <<>>,
           <<>>,
           <<>>,
           company,
           company_street,
           company_postal_code_and_city,
           iban,
           HR00,
           poziv_na_broj,
           <<>>,
           description,
           <<>> >>

generate_hub30_payload(doc) == Join(hub30_lines(doc), NL)

\* the local "amount" of generate_bcd_payload
bcd_amount(doc, up) == Replace(EUR \o Format2f(doc.grand_total, up), ",", ".")

bcd_lines_label_only(doc, up) ==
    LET iban        == get_iban_by_department(doc)
        bic         == IF "bic" \in DOMAIN doc THEN doc.bic ELSE DEFAULT_BIC
        amount      == bcd_amount(doc, up)
        reference   == extract_reference_number(doc.name)
        doc_label   == get_document_type_label(doc)
        description == doc_label
        company     == doc.company
    IN  << BCD_TAG,
           BCD_VERSION,
           BCD_CHARSET,
           BCD_SCT,
           bic,
           company,
           iban,
           amount,
           <<>>,
           reference,
           <<>>,
           description >>

\* the local list "lines" of generate_bcd_payload
bcd_lines(doc, up) ==
    LET iban        == get_iban_by_department(doc)
        bic         == IF "bic" \in DOMAIN doc THEN doc.bic ELSE DEFAULT_BIC
        amount      == bcd_amount(doc, up)
        reference   == extract_reference_number(doc.name)
        doc_label   == get_document_type_label(doc)
        description == doc_label \o <<" ">> \o reference
        company     == doc.company
    IN  << BCD_TAG,
           BCD_VERSION,
           BCD_CHARSET,
           BCD_SCT,
           bic,
           company,
           iban,
           amount,
           <<>>,
           reference,
           <<>>,
           description >>

generate_bcd_payload(doc, up) == Join(bcd_lines(doc, up), NL)

(***************************************************************************)
(* base64 (standard library)                                               *)
(***************************************************************************)
B64 == <<"A", "B", "C", "D", "E", "F", "G", "H", "I", "J", "K", "L", "M", "N", "O", "P", "Q", "R", "S", "T", "U", "V", "W", "X", "Y", "Z", "a", "b", "c", "d", "e", "f", "g", "h", "i", "j", "k", "l", "m", "n", "o", "p", "q", "r", "s", "t", "u", "v", "w", "x", "y", "z", "0", "1", "2", "3", "4", "5", "6", "7", "8", "9", "+", "/">>

B64Index(c) == CHOOSE i \in 1..64 : B64[i] = c

IsB64Char(c) == \E i \in 1..64 : B64[i] = c

\* base64.b64encode(b).decode(): three bytes give four characters, a tail
\* of one or two bytes is padded with "="
RECURSIVE b64encode(_)
b64encode(b) ==
    IF Len(b) = 0 THEN <<>>
    ELSE IF Len(b) = 1
    THEN LET n == b[1] * 16
         IN  <<B64[(n \div 64) + 1], B64[(n % 64) + 1], "=", "=">>
    ELSE IF Len(b) = 2
    THEN LET n == (b[1] * 256 + b[2]) * 4
         IN  <<B64[(n \div 4096) + 1], B64[((n \div 64) % 64) + 1],
               B64[(n % 64) + 1], "=">>
    ELSE LET n == b[1] * 65536 + b[2] * 256 + b[3]
         IN  <<B64[(n \div 262144) + 1], B64[((n \div 4096) % 64) + 1],
               B64[((n \div 64) % 64) + 1], B64[(n % 64) + 1]>>
             \o b64encode(SubSeq(b, 4, Len(b)))

\* binascii.a2b_base64 in its default, non-strict mode, reading s from
\* position i: characters outside the alphabet are skipped, a complete
\* run of padding ends the data, and an incomplete last quad is an error
RECURSIVE a2b_base64(_, _, _, _, _, _)
a2b_base64(s, i, quad_pos, pads, leftchar, out) ==
    IF i > Len(s)
    THEN [ok |-> quad_pos = 0, data |-> out]
    ELSE IF s[i] = "="
    THEN IF quad_pos >= 2 /\ quad_pos + pads + 1 >= 4
         THEN [ok |-> TRUE, data |-> out]
         ELSE a2b_base64(s, i + 1, quad_pos, pads + 1, leftchar, out)
    ELSE IF ~IsB64Char(s[i])
    THEN a2b_base64(s, i + 1, quad_pos, pads, leftchar, out)
    ELSE LET v == B64Index(s[i]) - 1
         IN  CASE quad_pos = 0 ->
                    a2b_base64(s, i + 1, 1, 0, v, out)
               [] quad_pos = 1 ->
                    a2b_base64(s, i + 1, 2, 0, v % 16,
                               Append(out, leftchar * 4 + (v \div 16)))
               [] quad_pos = 2 ->
                    a2b_base64(s, i + 1, 3, 0, v % 4,
                               Append(out, leftchar * 16 + (v \div 4)))
               [] OTHER ->
                    a2b_base64(s, i + 1, 0, 0, 0,
                               Append(out, leftchar * 64 + v))

\* base64.b64decode(s): the bytes, or binascii.Error
b64decode(s) == a2b_base64(s, 1, 0, 0, 0, <<>>)

(***************************************************************************)
(* Output packager                                                         *)
(***************************************************************************)
buffer_to_data_uri_no_padding(bytes) ==
    DATA_URI_PREFIX \o SelectSeq(b64encode(bytes), LAMBDA c : c # "=")

\* buffer_to_data_uri(buf), given buf.getvalue()
buffer_to_data_uri(bytes) == DATA_URI_PREFIX \o b64encode(bytes)

(***************************************************************************)
(* Inputs                                                                  *)
(***************************************************************************)
None == <<"None">>

NAME_ACC == <<"A", "C", "C", "-", "S", "I", "N", "V", "-", "2", "0", "2", "4", "-", "0", "0", "0", "0", "1">>

NAME_005 == <<"0", "0", "5", "-", "2", "0", "2", "4", "-", "0", "0", "1", "2", "3">>

NAME_AB == <<"A", "B">>

NAME_LONG == <<"I", "N", "V", "O", "I", "C", "E", "2", "0", "2", "4", "X">>

NAME_NL == <<"A", "-", "1", "\n", "B", "-", "2">>

NAME_NONASCII == <<"R", "A", "U+010C", "-", "2", "0", "2", "4", "-", "7">>

COMPANY_TEST == <<"T", "e", "s", "t", " ", "T", "v", "r", "t", "k", "a", " ", "d", ".", "o", ".", "o", ".">>

COMPANY_NL == <<"T", "e", "s", "t", "\n", "T", "v", "r", "t", "k", "a">>

IBAN_DOC == <<"H", "R", "1", "2", "3", "4", "5", "6", "7", "8", "9", "0", "1", "2", "3", "4", "5", "6", "7", "8", "9">>

ODJEL_MONTAZA == <<"M", "o", "n", "t", "a", "U+017E", "a">>

\* every string over {"A", "-"} of at most MaxNameLen characters
NameAlphabet == {"A", "-"}

Names == UNION {[1..k -> NameAlphabet] : k \in 0..MaxNameLen}
             \cup {NAME_ACC, NAME_005, NAME_AB, NAME_LONG}

DocNames == {NAME_ACC, NAME_005, NAME_AB, NAME_LONG, NAME_NL, NAME_NONASCII, <<>>}

Companies == {COMPANY_TEST, COMPANY_NL}

Doctypes == {"Sales Invoice", "Quotation", "Work Order"}

Departments == {None, ODJEL_MONTAZA}

Widths == (MaxIntDigits - 1)..MaxIntDigits

IntParts == {<<0>>, <<9>>, <<1, 0>>, <<1, 5, 0, 0>>, <<2, 5, 0, 0>>}
                \cup {Repeat(9, k) : k \in Widths}
                \cup {<<1>> \o Repeat(0, k - 1) : k \in Widths}

FracParts == {<<0, 0, 0>>, <<0, 0, 1>>, <<1, 2, 4>>, <<2, 9, 5>>,
              <<9, 9, 5>>, <<9, 9, 9>>}

Amounts == [neg : BOOLEAN, int : IntParts, frac : FracParts]

Docs == {MockDocument([doctype |-> t, name |-> n, company |-> c,
                       grand_total |-> a, custom_odjel |-> o,
                       iban |-> IBAN_DOC, bic |-> DEFAULT_BIC]) :
            t \in Doctypes, n \in DocNames, c \in Companies,
            a \in Amounts, o \in Departments}

\* one document per identifier of Names, the other attributes fixed
NameDocs == {MockDocument([doctype |-> "Sales Invoice", name |-> n,
                           company |-> COMPANY_TEST,
                           grand_total |-> [neg |-> FALSE, int |-> <<1, 5, 0, 0>>,
                                            frac |-> <<0, 0, 0>>],
                           custom_odjel |-> None,
                           iban |-> IBAN_DOC, bic |-> DEFAULT_BIC]) :
                n \in Names}

EncoderDocs == Docs \cup NameDocs

\* PNG streams written by image.save / code.write
ByteSamples == {0, 137, 255}

Buffers == UNION {[1..k -> ByteSamples] : k \in 0..MaxBufLen}

PngStreams == {<<137, 80, 78, 71>>, <<137, 80, 78, 71, 13, 10, 26>>}

RenderData == {NAME_005, NAME_AB, <<>>}

SupportedBarcodes == {"code128", "code39", "ean13"}

BarcodeTypes == SupportedBarcodes \cup {"qr"}

Filenames == {"a.png", "b.png"}

URI_JPEG == <<"d", "a", "t", "a", ":", "i", "m", "a", "g", "e", "/", "j", "p", "e", "g", ";", "b", "a", "s", "e", "6", "4", ",", "A", "A", "=", "=">>

URI_PLAIN == <<"A", "A", "=", "=">>

CallerUris == {<<>>, URI_PLAIN, URI_JPEG, DATA_URI_PREFIX,
               DATA_URI_PREFIX \o <<"A">>,
               DATA_URI_PREFIX \o <<"/", "w", "=", "=">>}

(***************************************************************************)
(* Outcomes of a call                                                      *)
(***************************************************************************)
NoCall == [kind |-> "none", val |-> <<>>, exc |-> "none"]

Return(v) == [kind |-> "return", val |-> v, exc |-> "none"]

ReturnNone == [kind |-> "return_none", val |-> <<>>, exc |-> "none"]

Raise(e) == [kind |-> "raise", val |-> <<>>, exc |-> e]

NoFile == [exists |-> FALSE, data |-> <<>>]

File(bytes) == [exists |-> TRUE, data |-> bytes]

\* no objects on the heap, no invocation in progress
NoHeap == [none |-> TRUE]

NoProc == [none |-> TRUE]

(***************************************************************************)
(* Symbol renderers.  The symbology libraries are outside the repository:  *)
(* lib is what the library does with the payload ("ok", or the exception   *)
(* it raises) and png is the stream the rendered image is saved as.        *)
(***************************************************************************)
Pdf417Outcomes == {"ok", "ValueError"}

QrOutcomes == {"ok", "DataOverflowError"}

BarcodeOutcomes == {"ok", "IllegalCharacterError"}

get_pdf417(lib, png) ==
    IF lib = "ok" THEN Return(buffer_to_data_uri(png)) ELSE Return(<<>>)

get_qr_code(lib, png) ==
    IF lib = "ok" THEN Return(buffer_to_data_uri(png)) ELSE Return(<<>>)

get_barcode_image(barcode_type, lib, png) ==
    IF barcode_type \notin SupportedBarcodes THEN Return(<<>>)
    ELSE IF lib = "ok" THEN Return(buffer_to_data_uri(png))
    ELSE Return(<<>>)

\* save_data_uri_to_file: the outcome and the file system it leaves
save_data_uri_to_file(files, data_uri, filename) ==
    IF StartsWith(data_uri, DATA_URI_PREFIX)
    THEN LET base64_data == Split(data_uri, ",")[2]
             image_data  == b64decode(base64_data)
         IN  IF image_data.ok
             THEN [ret |-> ReturnNone,
                   fs  |-> [files EXCEPT ![filename] = File(image_data.data)]]
             ELSE [ret |-> Raise("binascii.Error"), fs |-> files]
    ELSE [ret |-> ReturnNone, fs |-> files]

(***************************************************************************)
(* State machine: one action per call of a function of the module.  The   *)
(* functions are pure, so a run is one call on inputs of the caller's     *)
(* choice: op = "none" before the call, the name of the function after.   *)
(***************************************************************************)
Init ==
    /\ op = "none"
    /\ arg = [none |-> TRUE]
    /\ ret = NoCall
    /\ lines = <<>>
    /\ buf = <<>>
    /\ fs = [f \in Filenames |-> NoFile]
    /\ heap = NoHeap
    /\ proc = NoProc

ExtractReferenceNumber ==
    /\ op = "none"
    /\ \E doc_name \in Names :
           /\ op' = "extract_reference_number"
           /\ arg' = [doc_name |-> doc_name]
           /\ ret' = Return(extract_reference_number(doc_name))
           /\ lines' = <<>>
           /\ UNCHANGED <<buf, fs, heap, proc>>

GenerateHub30Payload ==
    /\ op = "none"
    /\ \E doc \in EncoderDocs :
           /\ op' = "generate_hub30_payload"
           /\ arg' = [doc |-> doc]
           /\ lines' = hub30_lines(doc)
           /\ ret' = Return(generate_hub30_payload(doc))
           /\ UNCHANGED <<buf, fs, heap, proc>>

GenerateBcdPayload ==
    /\ op = "none"
    /\ \E doc \in EncoderDocs, up \in BOOLEAN :
           /\ op' = "generate_bcd_payload"
           /\ arg' = [doc |-> doc]
           /\ lines' = bcd_lines(doc, up)
           /\ ret' = Return(generate_bcd_payload(doc, up))
           /\ UNCHANGED <<buf, fs, heap, proc>>

GetPdf417 ==
    /\ op = "none"
    /\ \E data \in RenderData, lib \in Pdf417Outcomes, png \in PngStreams :
           /\ op' = "get_pdf417"
           /\ arg' = [data |-> data, lib |-> lib]
           /\ ret' = get_pdf417(lib, png)
           /\ lines' = <<>>
           /\ UNCHANGED <<buf, fs, heap, proc>>

GetQrCode ==
    /\ op = "none"
    /\ \E data \in RenderData, lib \in QrOutcomes, png \in PngStreams :
           /\ op' = "get_qr_code"
           /\ arg' = [data |-> data, lib |-> lib]
           /\ ret' = get_qr_code(lib, png)
           /\ lines' = <<>>
           /\ UNCHANGED <<buf, fs, heap, proc>>

GetBarcodeImage ==
    /\ op = "none"
    /\ \E data \in RenderData, barcode_type \in BarcodeTypes,
          lib \in BarcodeOutcomes, png \in PngStreams :
           /\ op' = "get_barcode_image"
           /\ arg' = [data |-> data, barcode_type |-> barcode_type,
                      lib |-> IF barcode_type \in SupportedBarcodes
                              THEN lib ELSE "BarcodeNotFoundError"]
           /\ ret' = get_barcode_image(barcode_type, lib, png)
           /\ lines' = <<>>
           /\ UNCHANGED <<buf, fs, heap, proc>>

GetHub30Pdf417 ==
    /\ op = "none"
    /\ \E doc \in Docs, lib \in Pdf417Outcomes, png \in PngStreams :
           /\ op' = "get_hub30_pdf417"
           /\ arg' = [doc |-> doc, data |-> generate_hub30_payload(doc),
                      lib |-> lib]
           /\ ret' = get_pdf417(lib, png)
           /\ lines' = <<>>
           /\ UNCHANGED <<buf, fs, heap, proc>>

GetBcdQr ==
    /\ op = "none"
    /\ \E doc \in Docs, up \in BOOLEAN, lib \in QrOutcomes, png \in PngStreams :
           /\ op' = "get_bcd_qr"
           /\ arg' = [doc |-> doc, data |-> generate_bcd_payload(doc, up),
                      lib |-> lib]
           /\ ret' = get_qr_code(lib, png)
           /\ lines' = <<>>
           /\ UNCHANGED <<buf, fs, heap, proc>>

Next ==
    \/ ExtractReferenceNumber
    \/ GenerateHub30Payload
    \/ GenerateBcdPayload
    \/ GetPdf417
    \/ GetQrCode
    \/ GetBarcodeImage
    \/ GetHub30Pdf417
    \/ GetBcdQr

Spec == Init /\ [][Next]_vars

(***************************************************************************)
(* Output packager: a PNG stream sits in a buffer, is turned into a data   *)
(* URI and data URIs are saved to files                                    *)
(***************************************************************************)
InitPackager ==
    /\ op = "none"
    /\ arg = [none |-> TRUE]
    /\ ret = NoCall
    /\ lines = <<>>
    /\ buf \in Buffers
    /\ fs = [f \in Filenames |-> NoFile]
    /\ heap = NoHeap
    /\ proc = NoProc

BufferToDataUri ==
    /\ op' = "buffer_to_data_uri"
    /\ arg' = [bytes |-> buf]
    /\ ret' = Return(buffer_to_data_uri(buf))
    /\ UNCHANGED <<lines, buf, fs, heap, proc>>

\* the caller passes the URI it was just given, or one of its own
SaveDataUriToFile ==
    \E data_uri \in CallerUris \cup
                    (IF op = "buffer_to_data_uri" THEN {ret.val} ELSE {}),
       filename \in Filenames :
        LET r == save_data_uri_to_file(fs, data_uri, filename)
        IN  /\ op' = "save_data_uri_to_file"
            /\ arg' = [data_uri |-> data_uri, filename |-> filename]
            /\ ret' = r.ret
            /\ fs' = r.fs
            /\ UNCHANGED <<lines, buf, heap, proc>>

NextPackager ==
    \/ BufferToDataUri
    \/ SaveDataUriToFile

SpecPackager == InitPackager /\ [][NextPackager]_vars

(***************************************************************************)
(* Properties                                                              *)
(***************************************************************************)
REF_ACC == <<"S", "I", "N", "V", "-", "2", "0", "2", "4", "-", "0", "0", "0", "0", "1">>

AMT_1500 == <<"0", "0", "0", "0", "0", "0", "0", "0", "0", "1", "5", "0", "0", "0", "0">>

EUR2500 == <<"E", "U", "R", "2", "5", "0", "0", ".", "0", "0">>

HasChar(s, c) == \E i \in 1..Len(s) : s[i] = c

AllDigitChars(s) == \A i \in 1..Len(s) : IsDigitChar(s[i])

DashesOf(s) == {i \in 1..Len(s) : s[i] = "-"}

\* position of the k-th dash of s
KthDash(s, k) ==
    CHOOSE i \in DashesOf(s) : Cardinality({j \in DashesOf(s) : j <= i}) = k

\* the reference number as the claim describes it, read off the positions
\* of the dashes
ExpectedReference(s) ==
    LET segments == Cardinality(DashesOf(s)) + 1
    IN  IF segments >= 4
        THEN SubSeq(s, KthDash(s, 1) + 1,
                    (IF segments >= 5 THEN KthDash(s, 4) ELSE Len(s) + 1) - 1)
        ELSE IF segments = 3 THEN s
        ELSE SubSeq(s, 1, Min(10, Len(s)))

\* C1: for every identifier, extract_reference_number returns (never
\* raises); with four or more dash-separated segments the result is
\* segments 1, 2 and 3 (0-based) joined by "-", with exactly three it is the
\* identifier itself, otherwise it is the first min(10, len) characters.
C1_ReferenceNumber ==
    op = "extract_reference_number" =>
        /\ ret.kind = "return"
        /\ ret.val = ExpectedReference(arg.doc_name)
        /\ (arg.doc_name = NAME_ACC => ret.val = REF_ACC)
        /\ (arg.doc_name = NAME_005 => ret.val = NAME_005)
        /\ (arg.doc_name = NAME_AB => ret.val = NAME_AB)

C1_Witness ==
    /\ op = "extract_reference_number"
    /\ arg.doc_name = NAME_ACC
    /\ ret = Return(REF_ACC)

\* C2: the HUB30 payload splits on newline into exactly 15 fields for every
\* document view, also when a name or identifier contains a newline.
C2_Hub30FifteenFields ==
    op = "generate_hub30_payload" =>
        /\ ret.kind = "return"
        /\ Len(Split(ret.val, NL)) = 15

RoundTimes100(x) ==
    LET c0 == x.int \o <<x.frac[1], x.frac[2]>>
    IN  StripZeros(IF x.frac[3] >= 5 THEN Inc(c0) ELSE c0)

ZeroPad15(ds) ==
    Repeat("0", IF Len(ds) < 15 THEN 15 - Len(ds) ELSE 0) \o DigitStr(ds)

\* C4: for every non-negative amount within the 15-digit range, field 3 of
\* the HUB30 payload is round(amount * 100), rounded to the nearest minor
\* unit, zero-padded to width 15.
C4_Hub30AmountRounded ==
    (/\ op = "generate_hub30_payload"
     /\ ~arg.doc.grand_total.neg
     /\ Len(RoundTimes100(arg.doc.grand_total)) <= 15)
        => /\ lines[3] = ZeroPad15(RoundTimes100(arg.doc.grand_total))
           /\ (arg.doc.grand_total = [neg |-> FALSE, int |-> <<1, 5, 0, 0>>,
                                      frac |-> <<0, 0, 0>>]
                   => lines[3] = AMT_1500)

\* C5: the HUB30 encoder never returns an amount field that is not exactly
\* 15 decimal digits: a negative amount, or one whose minor-unit count
\* needs more than 15 digits, makes it fail with an error.
C5_Hub30AmountValidated ==
    op = "generate_hub30_payload" =>
        /\ ret.kind = "return" =>
               Len(lines[3]) = 15 /\ AllDigitChars(lines[3])
        /\ (\/ (arg.doc.grand_total.neg /\ ~(IsZero(arg.doc.grand_total.int)
                                            /\ IsZero(arg.doc.grand_total.frac)))
            \/ Len(IntTimes100(arg.doc.grand_total).mag) > 15)
               => ret.kind = "raise"

\* C6: for every document view the BCD payload splits on newline into
\* exactly 12 fields: "BCD", "002", "1", "SCT", BIC, payee name, IBAN,
\* amount, blank, reference number, blank, label + " " + reference.
C6_BcdTwelveFields ==
    op = "generate_bcd_payload" =>
        LET doc == arg.doc
            ref == ExpectedReference(doc.name)
        IN  /\ ret.kind = "return"
            /\ Split(ret.val, NL) =
                 << BCD_TAG, BCD_VERSION, BCD_CHARSET, BCD_SCT, doc.bic,
                    doc.company, FIXED_IBAN, lines[8], <<>>, ref, <<>>,
                    get_document_type_label(doc) \o <<" ">> \o ref >>

\* C7: field 8 of the BCD payload is "EUR" followed by the amount with an
\* integer part, a "." and exactly two fractional digits, never a ","; the
\* number is the amount cut to two decimals or one hundredth above it (the
\* amount itself when it has no third decimal); 2500.0 gives "EUR2500.00".
C7_BcdAmount ==
    op = "generate_bcd_payload" =>
        LET x      == arg.doc.grand_total
            f      == lines[8]
            num    == SubSeq(f, 4, Len(f))
            body   == IF x.neg THEN Tail(num) ELSE num
            intp   == SubSeq(body, 1, Len(body) - 3)
            fracp  == SubSeq(body, Len(body) - 1, Len(body))
            c0     == StripZeros(x.int \o <<x.frac[1], x.frac[2]>>)
            c1     == StripZeros(Inc(x.int \o <<x.frac[1], x.frac[2]>>))
            shown  == intp \o fracp
            same(c) == /\ AllDigitChars(shown)
                       /\ \E z \in 0..2 : shown = Repeat("0", z) \o DigitStr(c)
        IN  /\ Len(lines) = 12
            /\ ret = Return(Join(lines, NL))
            /\ StartsWith(f, EUR)
            /\ x.neg => (Len(num) > 0 /\ num[1] = "-")
            /\ Len(body) >= 4
            /\ body[Len(body) - 2] = "."
            /\ Len(intp) >= 1 /\ AllDigitChars(intp)
            /\ Len(intp) > 1 => intp[1] # "0"
            /\ Len(fracp) = 2 /\ AllDigitChars(fracp)
            /\ ~HasChar(f, ",")
            /\ same(c0) \/ same(c1)
            /\ x.frac[3] = 0 => same(c0)
            /\ (x = [neg |-> FALSE, int |-> <<2, 5, 0, 0>>, frac |-> <<0, 0, 0>>]
                    => f = EUR2500)

C7_Witness ==
    /\ op = "generate_bcd_payload"
    /\ arg.doc.grand_total =
           [neg |-> FALSE, int |-> <<2, 5, 0, 0>>, frac |-> <<0, 0, 0>>]
    /\ arg.doc.company = COMPANY_TEST
    /\ Split(ret.val, NL)[8] = EUR2500

Renderers == {"get_pdf417", "get_qr_code", "get_barcode_image"}

\* C8: a renderer whose payload is invalid for the symbology or exceeds its
\* capacity, or whose symbology name is unsupported, reports a failure to
\* its caller: it never returns an empty string or another placeholder.
C8_RenderersReportFailure ==
    (op \in Renderers /\ arg.lib # "ok") => ret.kind = "raise"

\* C9: save_data_uri_to_file signals an error for every reference that
\* does not start with "data:image/png;base64,"; it never returns normally
\* having written nothing.
C9_SaveRejectsBadPrefix ==
    (/\ op = "save_data_uri_to_file"
     /\ ~StartsWith(arg.data_uri, DATA_URI_PREFIX))
        => ret.kind = "raise"

\* C10: for every byte sequence held in the buffer, buffer_to_data_uri
\* returns "data:image/png;base64," followed by the base64 encoding of the
\* bytes (four characters of the base64 alphabet, "=" only as padding, per
\* three bytes), and save_data_uri_to_file applied to that string writes
\* exactly those bytes to the destination file.
C10_PackagerRoundTrip ==
    /\ op = "buffer_to_data_uri" =>
           LET payload == SubSeq(ret.val, Len(DATA_URI_PREFIX) + 1,
                                 Len(ret.val))
           IN  /\ ret.kind = "return"
               /\ arg.bytes = buf
               /\ StartsWith(ret.val, DATA_URI_PREFIX)
               /\ payload = b64encode(buf)
               /\ Len(payload) = 4 * ((Len(buf) + 2) \div 3)
               /\ \A i \in 1..Len(payload) :
                      \/ IsB64Char(payload[i])
                      \/ (payload[i] = "=" /\ i > Len(payload) - 3
                                           + ((Len(buf) + 2) % 3))
    /\ (/\ op = "save_data_uri_to_file"
        /\ arg.data_uri = DATA_URI_PREFIX \o b64encode(buf))
           => /\ ret = ReturnNone
              /\ fs[arg.filename] = File(buf)

C10_Witness ==
    /\ op = "save_data_uri_to_file"
    /\ buf = <<137, 255, 0, 255>>
    /\ arg.data_uri = DATA_URI_PREFIX \o b64encode(buf)
    /\ fs[arg.filename] = File(<<137, 255, 0, 255>>)

(***************************************************************************)
(* Image post-processor.  An image of the modes the renderers hand over    *)
(* (after convert("RGB")) is its size <<width, height>> and its rows of     *)
(* pixels, top to bottom; "W" is the white of the background.              *)
(***************************************************************************)
MaxSide == 3

MaxPasses == 2

Colours == {"W", "B"}

\* the images of width w and height h
Images(w, h) == {[size |-> <<w, h>>, px |-> p] : p \in [1..h -> [1..w -> Colours]]}

Width(img) == img.size[1]

Height(img) == img.size[2]

\* Image.new(img.mode, img.size, "white")
Image_new(size, colour) ==
    [size |-> size, px |-> [y \in 1..size[2] |-> [x \in 1..size[1] |-> colour]]]

\* ImageChops.difference(a, b): a pixel is zero where the two agree
ImageChops_difference(a, b) ==
    [size |-> a.size,
     px   |-> [y \in 1..Height(a) |->
                  [x \in 1..Width(a) |-> IF a.px[y][x] = b.px[y][x] THEN 0 ELSE 1]]]

SetMin(S) == CHOOSE m \in S : \A n \in S : m <= n

SetMax(S) == CHOOSE m \in S : \A n \in S : m >= n

\* diff.getbbox(): None, or <<left, upper, right, lower>> of the non-zero
\* region, 0-based, right and lower exclusive
getbbox(diff) ==
    LET xs == {x \in 1..Width(diff) : \E y \in 1..Height(diff) : diff.px[y][x] # 0}
        ys == {y \in 1..Height(diff) : \E x \in 1..Width(diff) : diff.px[y][x] # 0}
    IN  IF xs = {} THEN None
        ELSE <<SetMin(xs) - 1, SetMin(ys) - 1, SetMax(xs), SetMax(ys)>>

\* img.crop(bbox)
crop(img, bbox) ==
    [size |-> <<bbox[3] - bbox[1], bbox[4] - bbox[2]>>,
     px   |-> [y \in 1..(bbox[4] - bbox[2]) |->
                  [x \in 1..(bbox[3] - bbox[1]) |->
                      img.px[y + bbox[2]][x + bbox[1]]]]]

auto_crop_white_short(img) ==
    LET bg   == Image_new(img.size, "W")
        diff == ImageChops_difference(img, bg)
        bbox == getbbox(diff)
    IN  IF bbox # None
        THEN crop(img, <<bbox[1], bbox[2], bbox[3] - 1, bbox[4]>>)
        ELSE img

auto_crop_white_blank(img) ==
    LET bg   == Image_new(img.size, "W")
        diff == ImageChops_difference(img, bg)
        bbox == getbbox(diff)
    IN  IF bbox # None THEN crop(img, bbox) ELSE Image_new(<<0, 0>>, "W")

auto_crop_white(img) ==
    LET bg   == Image_new(img.size, "W")
        diff == ImageChops_difference(img, bg)
        bbox == getbbox(diff)
    IN  IF bbox # None THEN crop(img, bbox) ELSE img

\* The post-processor is applied to an image and then to its own result.
InitCrop ==
    /\ op = "none"
    /\ \E w \in 0..MaxSide, h \in 0..MaxSide :
           \E img \in Images(w, h) : arg = [orig |-> img, img |-> img, pass |-> 0]
    /\ ret = NoCall
    /\ lines = <<>>
    /\ buf = <<>>
    /\ fs = [f \in Filenames |-> NoFile]
    /\ heap = NoHeap
    /\ proc = NoProc

AutoCropWhite ==
    /\ arg.pass < MaxPasses
    /\ LET img == IF op = "none" THEN arg.img ELSE ret.val
       IN  /\ op' = "auto_crop_white"
           /\ arg' = [orig |-> arg.orig, img |-> img, pass |-> arg.pass + 1]
           /\ ret' = Return(auto_crop_white(img))
    /\ UNCHANGED <<lines, buf, fs, heap, proc>>

NextCrop ==
    \/ AutoCropWhite

SpecCrop == InitCrop /\ [][NextCrop]_vars

\* C11: auto_crop_white is idempotent: applied to its own result it returns
\* an image of the same size and pixels.
C11_CropIdempotent ==
    (op = "auto_crop_white" /\ arg.pass >= 2) => ret = Return(arg.img)

C11_Witness ==
    /\ op = "auto_crop_white"
    /\ arg.pass = 2
    /\ arg.orig.size = <<3, 3>>
    /\ arg.img.size = <<2, 1>>
    /\ ret.val = arg.img

HasContent(img) ==
    \E y \in 1..Height(img) : \E x \in 1..Width(img) : img.px[y][x] # "W"

ContentCount(img) ==
    Cardinality({c \in (1..Width(img)) \X (1..Height(img)) :
                     img.px[c[2]][c[1]] # "W"})

\* r is the part of img at offset <<ox, oy>>
IsPartAt(r, img, ox, oy) ==
    /\ ox + Width(r) <= Width(img)
    /\ oy + Height(r) <= Height(img)
    /\ \A y \in 1..Height(r) : \A x \in 1..Width(r) :
           r.px[y][x] = img.px[y + oy][x + ox]

\* C12: an image with a non-background pixel is cropped to the smallest
\* rectangle holding all of them (the result is a part of the image, each
\* of its border rows and columns holds a non-background pixel and none is
\* lost); an all-background image comes back with the same size and pixels.
C12_CropToContent ==
    op = "auto_crop_white" =>
        LET img == arg.img
            r   == ret.val
        IN  /\ ret.kind = "return"
            /\ HasContent(img) =>
                 /\ Width(r) >= 1 /\ Height(r) >= 1
                 /\ \E ox \in 0..Width(img), oy \in 0..Height(img) :
                        IsPartAt(r, img, ox, oy)
                 /\ ContentCount(r) = ContentCount(img)
                 /\ \E x \in 1..Width(r) : r.px[1][x] # "W"
                 /\ \E x \in 1..Width(r) : r.px[Height(r)][x] # "W"
                 /\ \E y \in 1..Height(r) : r.px[y][1] # "W"
                 /\ \E y \in 1..Height(r) : r.px[y][Width(r)] # "W"
            /\ ~HasContent(img) => r = img

C12_Witness ==
    /\ op = "auto_crop_white"
    /\ arg.pass = 1
    /\ arg.img = [size |-> <<3, 3>>,
                  px |-> << <<"W", "W", "W">>, <<"W", "B", "B">>, <<"W", "W", "W">> >>]
    /\ ret.val = [size |-> <<2, 1>>, px |-> << <<"B", "B">> >>]

\* the lookup the source keeps commented out (generator.py:53-56)
DepartmentIban(doc) ==
    IF doc.custom_odjel = ODJEL_MONTAZA THEN FIXED_IBAN ELSE doc.iban

\* C13: the payee IBAN of the HUB30 payload (field 10) and of the BCD
\* payload (field 7) is looked up by the document's department, so that
\* documents of departments with different IBANs get different IBAN
\* fields; it is not one hardcoded constant.
C13_IbanByDepartment ==
    /\ op = "generate_hub30_payload" => lines[10] = DepartmentIban(arg.doc)
    /\ op = "generate_bcd_payload" => lines[7] = DepartmentIban(arg.doc)

NonAsciiChars == {"U+010C", "U+010D", "U+017E"}

IsAscii(s) == \A i \in 1..Len(s) : s[i] \notin NonAsciiChars

\* C14: the free-text description (field 14) of every HUB30 payload holds
\* only ASCII characters, also for an identifier with non-ASCII characters.
C14_DescriptionAscii ==
    op = "generate_hub30_payload" => IsAscii(lines[14])

EndsWith(s, t) ==
    Len(s) >= Len(t) /\ SubSeq(s, Len(s) - Len(t) + 1, Len(s)) = t

\* C16 as claimed: in every BCD payload, for every identifier including
\* the empty one, the structured reference (field 10) and the description
\* (field 12) are both non-empty and field 12 ends with field 10.
C16_BothPopulated ==
    op = "generate_bcd_payload" =>
        /\ lines[10] # <<>>
        /\ lines[12] # <<>>
        /\ EndsWith(lines[12], lines[10])

\* C16 as amended: in every BCD payload field 12 is non-empty, is the
\* document-type label, a space and the reference that field 10 holds;
\* field 10 is non-empty exactly when the identifier is non-empty.
C16_BothPopulatedAmended ==
    op = "generate_bcd_payload" =>
        /\ Len(lines) = 12
        /\ ret = Return(Join(lines, NL))
        /\ lines[10] = ExpectedReference(arg.doc.name)
        /\ lines[12] # <<>>
        /\ EndsWith(lines[12], <<" ">> \o lines[10])
        /\ Len(lines[12]) > Len(lines[10]) + 1
        /\ lines[10] # <<>> <=> arg.doc.name # <<>>

C16_Witness ==
    /\ op = "generate_bcd_payload"
    /\ arg.doc.name = <<>>
    /\ arg.doc.doctype = "Quotation"
    /\ lines[10] = <<>>
    /\ lines[12] = LABEL_QUOTATION \o <<" ">>

(***************************************************************************)
(* Invocations of the core on documents that live on the heap.  Each       *)
(* invocation runs the statements of its function one at a time (pc is the *)
(* source line it is about to run), interleaved with the other.            *)
(***************************************************************************)
NumInvocations == 2

Invocations == 1..NumInvocations

\* the documents on the heap
FrameDocs ==
    <<MockDocument([doctype |-> "Sales Invoice", name |-> NAME_ACC,
                   company |-> COMPANY_TEST,
                   grand_total |-> [neg |-> FALSE, int |-> <<1, 5, 0, 0>>,
                                    frac |-> <<0, 0, 0>>],
                   custom_odjel |-> None,
                   iban |-> IBAN_DOC, bic |-> DEFAULT_BIC]),
     MockDocument([doctype |-> "Quotation", name |-> NAME_NONASCII,
                   company |-> COMPANY_NL,
                   grand_total |-> [neg |-> FALSE, int |-> <<9>>,
                                    frac |-> <<9, 9, 9>>],
                   custom_odjel |-> ODJEL_MONTAZA,
                   iban |-> IBAN_DOC, bic |-> DEFAULT_BIC])>>

CoreFunctions == {"generate_hub30_payload", "generate_bcd_payload",
                  "get_hub30_pdf417", "get_bcd_qr"}

FirstLine(fn) ==
    IF fn \in {"generate_hub30_payload", "get_hub30_pdf417"} THEN "l61" ELSE "l92"

NoLocals == [iban |-> <<>>, poziv_na_broj |-> <<>>, doc_label |-> <<>>,
             company |-> <<>>, bic |-> <<>>, amount |-> <<>>,
             reference |-> <<>>]

Idle == [pc |-> "idle", fn |-> "none", doc |-> 0, given |-> NoHeap,
         loc |-> NoLocals, payload |-> <<>>, ret |-> NoCall]

\* One statement of an invocation of fn at line pc, on the document doc
\* with the locals loc: the line to run next, the locals, the payload once
\* it is built, the outcome once it returns, and the document afterwards.
InvocationStep_normalising(fn, pc, doc, loc, lib) ==
    LET at(q, l) == [pc |-> q, loc |-> l, payload |-> <<>>, ret |-> NoCall,
                     doc |-> doc]
    IN  CASE pc = "l61" ->
               at("l62", [loc EXCEPT !.iban = get_iban_by_department(doc)])
          [] pc = "l62" ->
               [at("l63", [loc EXCEPT !.poziv_na_broj =
                                         extract_reference_number(doc.name)])
                   EXCEPT !.doc = [doc EXCEPT !.name =
                                         extract_reference_number(doc.name)]]
          [] pc = "l63" ->
               at("l64", [loc EXCEPT !.doc_label = get_document_type_label(doc)])
          [] pc = "l64" ->
               at("l67", [loc EXCEPT !.company = doc.company])
          [] pc = "l67" ->
               LET text == Join(<< HRVHUB30_ID, EUR,
                                   Format015d(IntTimes100(doc.grand_total)),
                                   <<>>, <<>>, <<>>, loc.company,
                                   company_street,
                                   company_postal_code_and_city, loc.iban,
                                   HR00, loc.poziv_na_broj, <<>>,
                                   RACUN_BR \o loc.poziv_na_broj, <<>> >>, NL)
               IN  IF fn = "generate_hub30_payload"
                   THEN [pc |-> "done", loc |-> loc, payload |-> text,
                         ret |-> Return(text), doc |-> doc]
                   ELSE [pc |-> "l150", loc |-> loc, payload |-> text,
                         ret |-> NoCall, doc |-> doc]
          [] pc = "l150" ->
               [pc |-> "done", loc |-> loc, payload |-> <<>>,
                ret |-> get_pdf417(lib, <<137, 80, 78, 71>>), doc |-> doc]
          [] pc = "l92" ->
               at("l93", [loc EXCEPT !.iban = get_iban_by_department(doc)])
          [] pc = "l93" ->
               at("l94", [loc EXCEPT !.bic = IF "bic" \in DOMAIN doc
                                             THEN doc.bic ELSE DEFAULT_BIC])
          [] pc = "l94" ->
               at("l95", [loc EXCEPT !.amount = bcd_amount(doc, FALSE)])
          [] pc = "l95" ->
               at("l96", [loc EXCEPT !.reference =
                                         extract_reference_number(doc.name)])
          [] pc = "l96" ->
               at("l98", [loc EXCEPT !.doc_label = get_document_type_label(doc)])
          [] pc = "l98" ->
               at("l100", [loc EXCEPT !.company = doc.company])
          [] pc = "l100" ->
               LET text == Join(<< BCD_TAG, BCD_VERSION, BCD_CHARSET, BCD_SCT,
                                   loc.bic, loc.company, loc.iban, loc.amount,
                                   <<>>, loc.reference, <<>>,
                                   loc.doc_label \o <<" ">> \o loc.reference >>,
                                NL)
               IN  IF fn = "generate_bcd_payload"
                   THEN [pc |-> "done", loc |-> loc, payload |-> text,
                         ret |-> Return(text), doc |-> doc]
                   ELSE [pc |-> "l196", loc |-> loc, payload |-> text,
                         ret |-> NoCall, doc |-> doc]
          [] pc = "l196" ->
               [pc |-> "done", loc |-> loc, payload |-> <<>>,
                ret |-> get_qr_code(lib, <<137, 80, 78, 71>>), doc |-> doc]

InvocationStep(fn, pc, doc, loc, lib) ==
    LET at(q, l) == [pc |-> q, loc |-> l, payload |-> <<>>, ret |-> NoCall,
                     doc |-> doc]
    IN  CASE pc = "l61" ->
               at("l62", [loc EXCEPT !.iban = get_iban_by_department(doc)])
          [] pc = "l62" ->
               at("l63", [loc EXCEPT !.poziv_na_broj =
                                         extract_reference_number(doc.name)])
          [] pc = "l63" ->
               at("l64", [loc EXCEPT !.doc_label = get_document_type_label(doc)])
          [] pc = "l64" ->
               at("l67", [loc EXCEPT !.company = doc.company])
          [] pc = "l67" ->
               LET text == Join(<< HRVHUB30_ID, EUR,
                                   Format015d(IntTimes100(doc.grand_total)),
                                   <<>>, <<>>, <<>>, loc.company,
                                   company_street,
                                   company_postal_code_and_city, loc.iban,
                                   HR00, loc.poziv_na_broj, <<>>,
                                   RACUN_BR \o loc.poziv_na_broj, <<>> >>, NL)
               IN  IF fn = "generate_hub30_payload"
                   THEN [pc |-> "done", loc |-> loc, payload |-> text,
                         ret |-> Return(text), doc |-> doc]
                   ELSE [pc |-> "l150", loc |-> loc, payload |-> text,
                         ret |-> NoCall, doc |-> doc]
          [] pc = "l150" ->
               [pc |-> "done", loc |-> loc, payload |-> <<>>,
                ret |-> get_pdf417(lib, <<137, 80, 78, 71>>), doc |-> doc]
          [] pc = "l92" ->
               at("l93", [loc EXCEPT !.iban = get_iban_by_department(doc)])
          [] pc = "l93" ->
               at("l94", [loc EXCEPT !.bic = IF "bic" \in DOMAIN doc
                                             THEN doc.bic ELSE DEFAULT_BIC])
          [] pc = "l94" ->
               at("l95", [loc EXCEPT !.amount = bcd_amount(doc, FALSE)])
          [] pc = "l95" ->
               at("l96", [loc EXCEPT !.reference =
                                         extract_reference_number(doc.name)])
          [] pc = "l96" ->
               at("l98", [loc EXCEPT !.doc_label = get_document_type_label(doc)])
          [] pc = "l98" ->
               at("l100", [loc EXCEPT !.company = doc.company])
          [] pc = "l100" ->
               LET text == Join(<< BCD_TAG, BCD_VERSION, BCD_CHARSET, BCD_SCT,
                                   loc.bic, loc.company, loc.iban, loc.amount,
                                   <<>>, loc.reference, <<>>,
                                   loc.doc_label \o <<" ">> \o loc.reference >>,
                                NL)
               IN  IF fn = "generate_bcd_payload"
                   THEN [pc |-> "done", loc |-> loc, payload |-> text,
                         ret |-> Return(text), doc |-> doc]
                   ELSE [pc |-> "l196", loc |-> loc, payload |-> text,
                         ret |-> NoCall, doc |-> doc]
          [] pc = "l196" ->
               [pc |-> "done", loc |-> loc, payload |-> <<>>,
                ret |-> get_qr_code(lib, <<137, 80, 78, 71>>), doc |-> doc]

InitFrame ==
    /\ op = "none"
    /\ arg = [none |-> TRUE]
    /\ ret = NoCall
    /\ lines = <<>>
    /\ buf = <<>>
    /\ fs = [f \in Filenames |-> NoFile]
    /\ heap = [docs |-> FrameDocs]
    /\ proc = [p \in Invocations |-> Idle]

\* the caller invokes a core function on one of the documents
Call(p) ==
    /\ proc[p].pc = "idle"
    /\ \E fn \in CoreFunctions, d \in DOMAIN heap.docs :
           proc' = [proc EXCEPT ![p] =
                       [pc |-> FirstLine(fn), fn |-> fn, doc |-> d,
                        given |-> heap.docs[d], loc |-> NoLocals,
                        payload |-> <<>>, ret |-> NoCall]]
    /\ UNCHANGED <<op, arg, ret, lines, buf, fs, heap>>

\* the invocation runs its next statement
Step(p) ==
    /\ proc[p].pc \notin {"idle", "done"}
    /\ \E lib \in {"ok", "raise"} :
           LET r == InvocationStep(proc[p].fn, proc[p].pc,
                                   heap.docs[proc[p].doc], proc[p].loc, lib)
           IN  /\ proc' = [proc EXCEPT
                             ![p].pc = r.pc,
                             ![p].loc = r.loc,
                             ![p].payload = IF r.payload # <<>> THEN r.payload
                                            ELSE proc[p].payload,
                             ![p].ret = r.ret]
               /\ heap' = [heap EXCEPT !.docs[proc[p].doc] = r.doc]
    /\ UNCHANGED <<op, arg, ret, lines, buf, fs>>

NextFrame ==
    \/ \E p \in Invocations : Call(p)
    \/ \E p \in Invocations : Step(p)

SpecFrame == InitFrame /\ [][NextFrame]_vars

\* the payload the function produces for the document when run alone
PayloadAlone(fn, doc) ==
    IF fn \in {"generate_hub30_payload", "get_hub30_pdf417"}
    THEN generate_hub30_payload(doc)
    ELSE generate_bcd_payload(doc, FALSE)

\* C15: no core operation changes an attribute of the document it is given
\* or touches state shared between invocations: in every interleaving the
\* document stays as it was given, and the payload of each invocation is
\* the payload the function produces for that document when run alone.
C15_NoSharedState ==
    \A p \in Invocations :
        /\ proc[p].pc # "idle" => heap.docs[proc[p].doc] = proc[p].given
        /\ proc[p].pc \in {"done", "l150", "l196"} =>
               proc[p].payload = PayloadAlone(proc[p].fn, proc[p].given)
        /\ (proc[p].pc = "done" /\ proc[p].fn \in {"generate_hub30_payload",
                                                   "generate_bcd_payload"})
               => proc[p].ret = Return(PayloadAlone(proc[p].fn, proc[p].given))

C15_Witness ==
    /\ proc[1].pc = "done"
    /\ proc[1].fn = "generate_hub30_payload"
    /\ proc[2].pc = "l98"
    /\ proc[2].fn = "get_bcd_qr"
    /\ proc[1].doc = proc[2].doc
    /\ proc[1].ret = Return(generate_hub30_payload(heap.docs[proc[1].doc]))

(***************************************************************************)
(* Client, Invoice and InvoiceItem.  The heap holds the list objects, the  *)
(* invoices and the client; an invoice refers to its items list by the     *)
(* list's identity.  List 0 is the list object that the default value of   *)
(* the items parameter of Invoice.__init__ evaluates to, once, when the    *)
(* function is defined; list n is the list written at the construction of  *)
(* invoice n when the caller passes items.                                 *)
(***************************************************************************)
MaxInvoices == 2

MaxItems == 2

MaxClientInvoices == 2

DEFAULT_ITEMS == 0

\* tax rates as exact fractions; 1/4 is the default 0.25
DEFAULT_TAX_RATE == [num |-> 1, den |-> 4]

TaxRates == {DEFAULT_TAX_RATE, [num |-> 1, den |-> 2]}

InvoiceItem(quantity, unit_price) ==
    [quantity |-> quantity, unit_price |-> unit_price,
     total_price |-> quantity * unit_price]

\* prices are multiples of 4, so that every tax amount is exact
Items == {InvoiceItem(2, 4)}

ItemLists == {<<>>} \cup {<<it>> : it \in Items}

RECURSIVE sum(_)
sum(s) == IF s = <<>> THEN 0 ELSE Head(s) + sum(Tail(s))

calculate_totals(items, tax_rate) ==
    LET subtotal == sum([k \in 1..Len(items) |-> items[k].total_price])
        tax == (subtotal * tax_rate.num) \div tax_rate.den
    IN  [subtotal |-> subtotal, tax |-> tax, total |-> subtotal + tax]

Invoice(items_id, items, tax_rate) ==
    LET t == calculate_totals(items, tax_rate)
    IN  [items |-> items_id, tax_rate |-> tax_rate,
         subtotal |-> t.subtotal, tax |-> t.tax, total |-> t.total]

calculate_total_invoices_amount(invoices, client_invoices) ==
    sum([k \in 1..Len(client_invoices) |-> invoices[client_invoices[k]].total])

InitCrm ==
    /\ op = "none"
    /\ arg = [none |-> TRUE]
    /\ ret = NoCall
    /\ lines = <<>>
    /\ buf = <<>>
    /\ fs = [f \in Filenames |-> NoFile]
    /\ proc = NoProc
    /\ heap = [lists |-> [k \in 0..MaxInvoices |-> <<>>],
               invoices |-> <<>>,
               client |-> [invoices |-> <<>>, total_invoices_amount |-> 0]]

\* Invoice(number, date, due, client) or Invoice(..., tax_rate=r)
NewInvoiceDefault ==
    /\ Len(heap.invoices) < MaxInvoices
    /\ \E tax_rate \in TaxRates :
           heap' = [heap EXCEPT !.invoices =
                       Append(@, Invoice(DEFAULT_ITEMS,
                                         heap.lists[DEFAULT_ITEMS], tax_rate))]
    /\ op' = "Invoice"
    /\ arg' = [invoice |-> Len(heap.invoices) + 1]
    /\ UNCHANGED <<ret, lines, buf, fs, proc>>

\* Invoice(number, date, due, client, items=[...], tax_rate=r)
NewInvoiceWithItems ==
    /\ Len(heap.invoices) < MaxInvoices
    /\ \E items \in ItemLists, tax_rate \in TaxRates :
           LET n == Len(heap.invoices) + 1
           IN  heap' = [heap EXCEPT
                          !.lists[n] = items,
                          !.invoices = Append(@, Invoice(n, items, tax_rate))]
    /\ op' = "Invoice"
    /\ arg' = [invoice |-> Len(heap.invoices) + 1]
    /\ UNCHANGED <<ret, lines, buf, fs, proc>>

\* invoice.add_item(item)
AddItem ==
    \E i \in 1..Len(heap.invoices), item \in Items :
        LET inv == heap.invoices[i]
            items == Append(heap.lists[inv.items], item)
            t == calculate_totals(items, inv.tax_rate)
        IN  /\ Len(heap.lists[inv.items]) < MaxItems
            /\ heap' = [heap EXCEPT
                          !.lists[inv.items] = items,
                          !.invoices[i].subtotal = t.subtotal,
                          !.invoices[i].tax = t.tax,
                          !.invoices[i].total = t.total]
            /\ op' = "add_item"
            /\ arg' = [invoice |-> i]
            /\ UNCHANGED <<ret, lines, buf, fs, proc>>

\* client.add_invoice(invoice)
AddInvoice ==
    /\ Len(heap.client.invoices) < MaxClientInvoices
    /\ \E i \in 1..Len(heap.invoices) :
           LET invoices == Append(heap.client.invoices, i)
           IN  /\ heap' = [heap EXCEPT
                             !.client.invoices = invoices,
                             !.client.total_invoices_amount =
                                 calculate_total_invoices_amount(heap.invoices,
                                                                 invoices)]
               /\ op' = "add_invoice"
               /\ arg' = [invoice |-> i]
    /\ UNCHANGED <<ret, lines, buf, fs, proc>>

NextCrm ==
    \/ NewInvoiceDefault
    \/ NewInvoiceWithItems
    \/ AddItem
    \/ AddInvoice

SpecCrm == InitCrm /\ [][NextCrm]_vars

\* the items of invoice i
ItemsOf(h, i) == h.lists[h.invoices[i].items]

\* C17: after any sequence of add_invoice and add_item calls, the client's
\* total_invoices_amount is the sum of invoice.total over the invoices in
\* client.invoices.
C17_ClientTotal ==
    heap.client.total_invoices_amount =
        calculate_total_invoices_amount(heap.invoices, heap.client.invoices)

\* C18: after every construction and every add_item, each invoice's
\* subtotal is the sum of total_price over its own items, its tax is
\* subtotal * tax_rate and its total is subtotal + tax; and an add_item on
\* one invoice leaves the items of every other invoice as they were.
C18_InvoiceTotals ==
    [][ /\ \A i \in 1..Len(heap'.invoices) :
               LET inv == heap'.invoices[i]
               IN  /\ inv.subtotal =
                          sum([k \in 1..Len(ItemsOf(heap', i)) |->
                                  ItemsOf(heap', i)[k].total_price])
                   /\ inv.tax * inv.tax_rate.den = inv.subtotal * inv.tax_rate.num
                   /\ inv.total = inv.subtotal + inv.tax
        /\ op' = "add_item" =>
               \A j \in 1..Len(heap.invoices) :
                   j # arg'.invoice => ItemsOf(heap', j) = ItemsOf(heap, j)
      ]_vars

====
